---- MODULE Spec2Model ----
(***************************************************************************)
(* Model of the bot record-keeping backend (ordinaryYT/app-backend).       *)
(*                                                                         *)
(* The repository holds three near-duplicate servers:                      *)
(*   "perUser" : src/unnamed/part_000        (userId field, verify route)  *)
(*   "global"  : src/server.js lines 1-187   (global private-bot quota)    *)
(*   "legacy"  : src/server.js lines 189-331 (loadData() is not awaited)   *)
(* The variable `variant` says which one is running.                       *)
(*                                                                         *)
(* Node runs every handler on one thread: a handler runs without           *)
(* interruption from its entry to its first `await`, and from the          *)
(* resolution of one `await` to the next.  Each such stretch is one action.*)
(* fs.writeFile is modelled as "replace the whole document or fail and     *)
(* leave it as it was" (spec.md section 1: "write whole file atomically or *)
(* fail"); the text written is the one serialised when the write is        *)
(* issued, and it reaches the disk when the write completes.               *)
(***************************************************************************)
EXTENDS Integers, Sequences, FiniteSets, TLC

(***************************************************************************)
(* Program constants                                                       *)
(***************************************************************************)
maxBots == 20
maxPrivateBots == 5
BotCost == 250
DayMs == 24 * 60 * 60 * 1000

(***************************************************************************)
(* Bounds of the model                                                     *)
(***************************************************************************)
\* requests issued in a run of SpecSerial (one request at a time)
MaxSerialRequests == 3
\* requests issued in a run of Spec (requests interleave at their awaits)
MaxRequests == 2
\* the clock (Date.now()) takes the values 0..MaxClock
MaxClock == 1
\* requests issued in a run of SpecQuota
MaxQuotaRequests == 6
\* requests issued in a run of SpecObserve
MaxObserveRequests == 4
\* requests issued in a run of SpecRace
MaxRaceRequests == 3

\* the request slots: at most two requests are in flight at once
Procs == {1, 2}

(***************************************************************************)
(* JSON values of a request body                                           *)
(***************************************************************************)
\* a field that is absent from the request body (JavaScript `undefined`)
NoValue == "<undefined>"

IsPrivateValues == {"true", "false", NoValue}
UsernameValues == {NoValue, "", "bot"}
UserIdValues == {NoValue, "guest", "alice"}

\* JavaScript truthiness of the values above
Truthy(v) == v \notin {NoValue, "", "false"}

WAITING == "Waiting for Verification"
VERIFIED == "Verified"

ErrPrivate == "Private bot checkbox must be checked."
ErrUsername == "Please enter a username for the bot."
ErrMaxBots == "Maximum bot limit (20) reached!"
ErrPrivateLimit == "Maximum private bot limit (5) reached"
ErrPoints == "Insufficient points!"
ErrSavePoints == "Error saving points. Please try again."
ErrSaveBot == "Error saving bot. Please try again."
ErrNotFound == "Bot not found."
ErrVerify == "Error verifying bot."
NoError == ""

VARIABLES
    variant,     \* which of the three servers runs
    phase,       \* "initFiles", "loadBots", "loadUser", "serving", "exited"
    bots,        \* let bots = []
    botCount,    \* let botCount = 0
    userInfo,    \* let userInfo = { points, userId }
    diskBots,    \* bot_data.json
    diskUser,    \* user_data.json
    now,         \* the latest value Date.now() returned
    pc,          \* per slot: where the handler of the slot's request stands
    req,         \* per slot: the request
    loc,         \* per slot: the handler's locals
    resp,        \* per slot: the response sent (status 0: none yet)
    pre,         \* per slot: the state when the request arrived (history)
    writes,      \* per slot: the file writes the request has issued (history)
    started,     \* number of requests that have arrived (history)
    created,     \* number of 200 responses of POST /api/bots (history)
    loadedPoints \* userInfo.points as loadData left it (history)

vars == <<variant, phase, bots, botCount, userInfo, diskBots, diskUser, now,
          pc, req, loc, resp, pre, writes, started, created, loadedPoints>>

(***************************************************************************)
(* The two documents on disk                                               *)
(***************************************************************************)
\* bot_data.json: absent, present but unreadable/unparsable, or a JSON array
BotsDoc(list) == [state |-> "ok", list |-> list]
EmptyBotsDoc == BotsDoc(<<>>)
MissingBotsDoc == [state |-> "missing", list |-> <<>>]
CorruptBotsDoc == [state |-> "corrupt", list |-> <<>>]

\* user_data.json: absent, unreadable/unparsable, or a JSON object whose
\* points field is a number (numeric) or something Number() maps to NaN
UserDoc(points, userId) ==
    [state |-> "ok", numeric |-> TRUE, points |-> points, userId |-> userId]
NonNumericUserDoc ==
    [state |-> "ok", numeric |-> FALSE, points |-> 0, userId |-> NoValue]
MissingUserDoc ==
    [state |-> "missing", numeric |-> FALSE, points |-> 0, userId |-> NoValue]
CorruptUserDoc ==
    [state |-> "corrupt", numeric |-> FALSE, points |-> 0, userId |-> NoValue]

\* { points: 0, userId: 'guest' } in the per-user server, { points: 0 } in
\* the other two
DefaultUserInfo ==
    [points |-> 0, userId |-> IF variant = "perUser" THEN "guest" ELSE NoValue]
DefaultUserDoc == UserDoc(DefaultUserInfo.points, DefaultUserInfo.userId)

\* a record left in bot_data.json by an earlier run of the service
OldBot(i, private, owner) ==
    [id |-> -i, username |-> "old", status |-> WAITING, createdAt |-> -i,
     verificationDeadline |-> DayMs - i, isPrivate |-> private,
     userId |-> owner]

\* a bot list one short of the limit: private records of "alice", one short
\* of her quota, then private records of "guest", as many as the quota
\* allows, then public records without an owner
AlmostFull ==
    [i \in 1..(maxBots - 1) |->
        IF i < maxPrivateBots THEN OldBot(i, TRUE, "alice")
        ELSE IF i < 2 * maxPrivateBots THEN OldBot(i, TRUE, "guest")
        ELSE OldBot(i, FALSE, NoValue)]

\* a bot list one short of the limit whose only private records are those
\* of "alice", one short of the quota
NearLimits ==
    [i \in 1..(maxBots - 1) |->
        IF i < maxPrivateBots THEN OldBot(i, TRUE, "alice")
        ELSE OldBot(i, FALSE, NoValue)]

\* the documents the service may find when it starts
InitialBotsDocs ==
    {MissingBotsDoc, CorruptBotsDoc, EmptyBotsDoc, BotsDoc(AlmostFull)}
InitialUserDocs ==
    {MissingUserDoc, CorruptUserDoc, NonNumericUserDoc,
     UserDoc(BotCost + 50, "alice"), UserDoc(3 * BotCost, NoValue)}

Variants == {"perUser", "global", "legacy"}

NoBot ==
    [id |-> 0, username |-> NoValue, status |-> NoValue, createdAt |-> 0,
     verificationDeadline |-> 0, isPrivate |-> FALSE, userId |-> NoValue]
\* seq numbers the requests in their order of arrival (history)
NoRequest ==
    [kind |-> "none", seq |-> 0, username |-> NoValue, isPrivate |-> NoValue,
     userId |-> NoValue, botId |-> 0]
NoLocals ==
    [originalPoints |-> 0, bot |-> NoBot, idx |-> 0,
     userText |-> MissingUserDoc, botsText |-> MissingBotsDoc]
NoResponse == [status |-> 0, error |-> NoError, bot |-> NoBot]
NoWrites == <<>>
\* a write of one of the two documents, and how it ended
Issued(doc) == [doc |-> doc, result |-> "pending"]
Settled(w, ok) ==
    [w EXCEPT ![Len(w)].result = IF ok THEN "ok" ELSE "failed"]

\* what a request finds when it arrives
Snapshot ==
    [bots |-> bots, botCount |-> botCount, userInfo |-> userInfo,
     diskBots |-> diskBots, diskUser |-> diskUser]

\* server v has been constructed, with the documents botsDoc and userDoc on
\* disk: the module-level `let`s have run, loadData() has been called
Constructed(v, botsDoc, userDoc) ==
    /\ variant = v
    /\ phase = IF variant = "legacy" THEN "loadBots" ELSE "initFiles"
    /\ bots = <<>>
    /\ botCount = 0
    /\ userInfo = DefaultUserInfo
    /\ diskBots = botsDoc
    /\ diskUser = userDoc
    /\ now = 0
    /\ pc = [p \in Procs |-> "idle"]
    /\ req = [p \in Procs |-> NoRequest]
    /\ loc = [p \in Procs |-> NoLocals]
    /\ resp = [p \in Procs |-> NoResponse]
    /\ pre = [p \in Procs |-> Snapshot]
    /\ writes = [p \in Procs |-> NoWrites]
    /\ started = 0
    /\ created = 0
    /\ loadedPoints = 0

Init ==
    \E v \in Variants, botsDoc \in InitialBotsDocs, userDoc \in InitialUserDocs :
        Constructed(v, botsDoc, userDoc)

(***************************************************************************)
(* Start-up: initializeDataFiles and loadData                              *)
(***************************************************************************)
\* initializeDataFiles: create each document that does not exist.  A failed
\* write throws; loadData rethrows and the process exits.
InitializeDataFiles(okB, okU) ==
    /\ phase = "initFiles"
    /\ LET needB == diskBots.state = "missing"
           failB == needB /\ ~okB
           needU == ~failB /\ diskUser.state = "missing"
           failU == needU /\ ~okU
       IN /\ diskBots' = IF needB /\ okB THEN EmptyBotsDoc ELSE diskBots
          /\ diskUser' = IF needU /\ okU THEN DefaultUserDoc ELSE diskUser
          /\ phase' = IF failB \/ failU THEN "exited" ELSE "loadBots"
    /\ UNCHANGED <<variant, bots, botCount, userInfo, now, pc, req, loc,
                   resp, pre, writes, started, created, loadedPoints>>

\* loadData, first try block: read and parse bot_data.json
LoadBots(ok) ==
    /\ phase = "loadBots"
    /\ IF diskBots.state = "ok"
       THEN /\ bots' = diskBots.list
            /\ botCount' = Len(diskBots.list)
            /\ phase' = "loadUser"
            /\ UNCHANGED diskBots
       ELSE /\ bots' = <<>>
            /\ botCount' = 0
            /\ IF variant = "legacy"
               THEN phase' = "loadUser" /\ UNCHANGED diskBots
               ELSE IF ok
                    THEN phase' = "loadUser" /\ diskBots' = EmptyBotsDoc
                    ELSE phase' = "exited" /\ UNCHANGED diskBots
    /\ UNCHANGED <<variant, userInfo, diskUser, now, pc, req, loc, resp,
                   pre, writes, started, created, loadedPoints>>

\* Number(userInfo.points) || 0
CoercePoints(doc) == IF doc.numeric THEN doc.points ELSE 0

\* loadData, second try block: read and parse user_data.json
LoadUser(ok) ==
    /\ phase = "loadUser"
    /\ IF diskUser.state = "ok"
       THEN /\ userInfo' =
                 [points |-> CoercePoints(diskUser),
                  userId |-> IF variant = "perUser" /\ ~Truthy(diskUser.userId)
                             THEN "guest" ELSE diskUser.userId]
            /\ phase' = "serving"
            /\ UNCHANGED diskUser
       ELSE IF variant = "legacy"
            THEN /\ userInfo' = [userInfo EXCEPT !.points = 0]
                 /\ phase' = "serving"
                 /\ UNCHANGED diskUser
            ELSE /\ userInfo' = DefaultUserInfo
                 /\ IF ok
                    THEN phase' = "serving" /\ diskUser' = DefaultUserDoc
                    ELSE phase' = "exited" /\ UNCHANGED diskUser
    /\ loadedPoints' = userInfo'.points
    /\ UNCHANGED <<variant, bots, botCount, diskBots, now, pc, req, loc,
                   resp, pre, writes, started, created>>

\* handlers are registered: after loadData in the first two servers, at once
\* in the legacy server
Listening ==
    \/ phase = "serving"
    \/ variant = "legacy" /\ phase # "exited"

\* the values Date.now() may return: time does not run backwards
ClockValues == now..MaxClock

(***************************************************************************)
(* Helpers of the handlers                                                 *)
(***************************************************************************)
Free(p) == pc[p] \in {"idle", "done", "rejected"}

\* bots.filter(bot => bot.isPrivate && bot.userId === userId).length in the
\* per-user server, bots.filter(bot => bot.isPrivate).length in the others
PrivateBotCount(bts, userId) ==
    IF variant = "perUser"
    THEN Cardinality({i \in DOMAIN bts :
                        bts[i].isPrivate /\ bts[i].userId = userId})
    ELSE Cardinality({i \in DOMAIN bts : bts[i].isPrivate})

\* ValidationError without the username check
ValidationSkipsUsername(r, bts, cnt, points) ==
    IF ~Truthy(r.isPrivate) THEN ErrPrivate
    ELSE IF cnt >= maxBots THEN ErrMaxBots
    ELSE IF PrivateBotCount(bts, r.userId) >= maxPrivateBots THEN ErrPrivateLimit
    ELSE IF points < BotCost THEN ErrPoints
    ELSE NoError

\* ValidationError with `botCount > maxBots` for `botCount >= maxBots`
ValidationOffByOne(r, bts, cnt, points) ==
    IF ~Truthy(r.isPrivate) THEN ErrPrivate
    ELSE IF ~Truthy(r.username) THEN ErrUsername
    ELSE IF cnt > maxBots THEN ErrMaxBots
    ELSE IF PrivateBotCount(bts, r.userId) >= maxPrivateBots THEN ErrPrivateLimit
    ELSE IF points < BotCost THEN ErrPoints
    ELSE NoError

\* ValidationError with validations 3 and 4 in the other order
ValidationQuotaFirst(r, bts, cnt, points) ==
    IF ~Truthy(r.isPrivate) THEN ErrPrivate
    ELSE IF ~Truthy(r.username) THEN ErrUsername
    ELSE IF PrivateBotCount(bts, r.userId) >= maxPrivateBots THEN ErrPrivateLimit
    ELSE IF cnt >= maxBots THEN ErrMaxBots
    ELSE IF points < BotCost THEN ErrPoints
    ELSE NoError

\* Validations 1 to 5 of POST /api/bots: the error of the 400 response, or
\* NoError when all five pass.  userInfo.points is a number once loaded
\* (Number(x) || 0), so isNaN(userInfo.points) is never true.
ValidationError(r, bts, cnt, points) ==
    IF ~Truthy(r.isPrivate) THEN ErrPrivate
    ELSE IF ~Truthy(r.username) THEN ErrUsername
    ELSE IF cnt >= maxBots THEN ErrMaxBots
    ELSE IF PrivateBotCount(bts, r.userId) >= maxPrivateBots THEN ErrPrivateLimit
    ELSE IF points < BotCost THEN ErrPoints
    ELSE NoError

\* Deduct with another price
DeductLess(ui) == [ui EXCEPT !.points = @ - (BotCost - 50)]

\* Deduct that takes the price twice
DeductTwice(ui) == [ui EXCEPT !.points = @ - 2 * BotCost]

\* userInfo.points -= 250
Deduct(ui) == [ui EXCEPT !.points = @ - BotCost]

\* RestorePoints left out of the catch blocks
KeepDeducted(ui, originalPoints) == ui

\* userInfo.points = originalPoints
RestorePoints(ui, originalPoints) == [ui EXCEPT !.points = originalPoints]

\* the text saveUserData writes: JSON.stringify(userInfo) in the per-user
\* server, JSON.stringify({ points: userInfo.points }) in the others
SerializeUser(ui) ==
    IF variant = "perUser" THEN UserDoc(ui.points, ui.userId)
                           ELSE UserDoc(ui.points, NoValue)

\* the record POST /api/bots builds; Date.now() is read as t
NewBot(r, t) ==
    [id |-> t, username |-> r.username, status |-> WAITING, createdAt |-> t,
     verificationDeadline |-> t + DayMs, isPrivate |-> TRUE,
     userId |-> IF variant = "perUser"
                THEN (IF Truthy(r.userId) THEN r.userId ELSE "guest")
                ELSE NoValue]

\* bots.pop() left out of the catch block
PopNothing(bts) == bts

\* bots.pop()
Pop(bts) == IF Len(bts) = 0 THEN bts ELSE SubSeq(bts, 1, Len(bts) - 1)

\* FindBot that settles for the first record when none has the id
FindOrFirst(bts, botId) ==
    IF \E i \in DOMAIN bts : bts[i].id = botId
    THEN CHOOSE i \in DOMAIN bts :
            /\ bts[i].id = botId
            /\ \A j \in DOMAIN bts : bts[j].id = botId => i <= j
    ELSE IF Len(bts) > 0 THEN 1 ELSE 0

\* bots.find(b => b.id === botId): the index of the first match, 0 if none
FindBot(bts, botId) ==
    IF \E i \in DOMAIN bts : bts[i].id = botId
    THEN CHOOSE i \in DOMAIN bts :
            /\ bts[i].id = botId
            /\ \A j \in DOMAIN bts : bts[j].id = botId => i <= j
    ELSE 0

\* MarkVerified that flips the status instead of setting it
MarkToggled(bts, k) ==
    [bts EXCEPT ![k].status = IF @ = VERIFIED THEN WAITING ELSE VERIFIED]

\* bot.status = 'Verified' on the record at index k
MarkVerified(bts, k) == [bts EXCEPT ![k].status = VERIFIED]

Respond(status, error, bot) == [status |-> status, error |-> error, bot |-> bot]

\* The handler of slot p holds the record it pushed by reference: idx is the
\* record's place in bots, 0 once it has left the list.  After a pop of a
\* list of length n, the record that was at n is in the list no more.
Unlink(l, n) == [l EXCEPT !.idx = IF @ = n THEN 0 ELSE @]

(***************************************************************************)
(* POST /api/bots                                                          *)
(***************************************************************************)
\* from the handler's entry to `await saveUserData()` or to a 400 response
CreateBot(p, username, isPrivate, userId) ==
    /\ Listening
    /\ Free(p)
    /\ LET r == [kind |-> "create", seq |-> started + 1,
                 username |-> username, isPrivate |-> isPrivate,
                 userId |-> userId, botId |-> 0]
           err == ValidationError(r, bots, botCount, userInfo.points)
       IN /\ req' = [req EXCEPT ![p] = r]
          /\ pre' = [pre EXCEPT ![p] = Snapshot]
          /\ started' = started + 1
          /\ IF err # NoError
             THEN /\ resp' = [resp EXCEPT ![p] = Respond(400, err, NoBot)]
                  /\ pc' = [pc EXCEPT ![p] = "done"]
                  /\ loc' = [loc EXCEPT ![p] = NoLocals]
                  /\ writes' = [writes EXCEPT ![p] = NoWrites]
                  /\ UNCHANGED userInfo
             ELSE /\ userInfo' = Deduct(userInfo)
                  /\ loc' = [loc EXCEPT ![p] =
                               [NoLocals EXCEPT
                                  !.originalPoints = userInfo.points,
                                  !.userText = SerializeUser(Deduct(userInfo))]]
                  /\ writes' = [writes EXCEPT ![p] = <<Issued("user")>>]
                  /\ resp' = [resp EXCEPT ![p] = NoResponse]
                  /\ pc' = [pc EXCEPT ![p] = "awaitUserSave"]
    /\ UNCHANGED <<variant, phase, bots, botCount, diskBots, diskUser, now,
                   created, loadedPoints>>

\* `await saveUserData()` settles: the catch block, or the record is built
\* (Date.now() returns t) and appended and `await saveBots()` is reached
UserSaveDone(p, ok, t) ==
    /\ pc[p] = "awaitUserSave"
    /\ IF ok
       THEN LET bot == NewBot(req[p], t)
                appended == Append(bots, bot)
            IN /\ diskUser' = loc[p].userText
               /\ bots' = appended
               /\ botCount' = botCount + 1
               /\ loc' = [loc EXCEPT ![p].bot = bot,
                                     ![p].idx = Len(appended),
                                     ![p].botsText = BotsDoc(appended)]
               /\ writes' = [writes EXCEPT ![p] =
                               Append(Settled(@, TRUE), Issued("bots"))]
               /\ pc' = [pc EXCEPT ![p] = "awaitBotSave"]
               /\ now' = t
               /\ UNCHANGED <<userInfo, resp>>
       ELSE /\ userInfo' = RestorePoints(userInfo, loc[p].originalPoints)
            /\ resp' = [resp EXCEPT ![p] = Respond(500, ErrSavePoints, NoBot)]
            /\ pc' = [pc EXCEPT ![p] = "done"]
            /\ loc' = [loc EXCEPT ![p] = NoLocals]
            /\ writes' = [writes EXCEPT ![p] = Settled(@, FALSE)]
            /\ UNCHANGED <<bots, botCount, diskUser, now>>
    /\ UNCHANGED <<variant, phase, diskBots, req, pre, started, created,
                   loadedPoints>>

\* `await saveBots()` settles: the 200 response, or the catch block up to
\* its `await saveUserData()`
BotSaveDone(p, ok) ==
    /\ pc[p] = "awaitBotSave"
    /\ IF ok
       THEN /\ diskBots' = loc[p].botsText
            /\ resp' = [resp EXCEPT ![p] = Respond(200, NoError, loc[p].bot)]
            /\ pc' = [pc EXCEPT ![p] = "done"]
            /\ loc' = [loc EXCEPT ![p] = NoLocals]
            /\ writes' = [writes EXCEPT ![p] = Settled(@, TRUE)]
            /\ created' = created + 1
            /\ UNCHANGED <<bots, botCount, userInfo>>
       ELSE LET restored == RestorePoints(userInfo, loc[p].originalPoints)
            IN /\ bots' = Pop(bots)
               /\ botCount' = botCount - 1
               /\ userInfo' = restored
               /\ loc' = [q \in Procs |->
                            IF q = p
                            THEN [Unlink(loc[q], Len(bots)) EXCEPT
                                    !.userText = SerializeUser(restored)]
                            ELSE Unlink(loc[q], Len(bots))]
               /\ writes' = [writes EXCEPT ![p] =
                               Append(Settled(@, FALSE), Issued("user"))]
               /\ pc' = [pc EXCEPT ![p] = "awaitCompSave"]
               /\ UNCHANGED <<diskBots, resp, created>>
    /\ UNCHANGED <<variant, phase, diskUser, now, req, pre, started,
                   loadedPoints>>

\* What becomes of a handler whose promise rejects.  The handler is an async
\* function with no try around the `await saveUserData()` of its catch block:
\*   "hang"  Express 4 ignores the rejection, no response is ever sent;
\*   "exit"  the unhandled rejection ends the process (Node 15 and later);
\*   "error" Express 5 passes it to its error handler, which answers 500.
RejectionOutcomes == {"hang", "exit", "error"}
ErrUnhandled == "Internal Server Error"

\* the `await saveUserData()` of the catch block settles
CompSaveDone(p, ok, outcome) ==
    /\ pc[p] = "awaitCompSave"
    /\ IF ok
       THEN /\ diskUser' = loc[p].userText
            /\ resp' = [resp EXCEPT ![p] = Respond(500, ErrSaveBot, NoBot)]
            /\ pc' = [pc EXCEPT ![p] = "done"]
            /\ UNCHANGED phase
       ELSE /\ UNCHANGED diskUser
            /\ resp' = [resp EXCEPT ![p] =
                          IF outcome = "error"
                          THEN Respond(500, ErrUnhandled, NoBot) ELSE @]
            /\ pc' = [pc EXCEPT ![p] =
                        IF outcome = "error" THEN "done" ELSE "rejected"]
            /\ phase' = IF outcome = "exit" THEN "exited" ELSE phase
    /\ loc' = [loc EXCEPT ![p] = NoLocals]
    /\ writes' = [writes EXCEPT ![p] = Settled(@, ok)]
    /\ UNCHANGED <<variant, bots, botCount, userInfo, diskBots, now, req,
                   pre, started, created, loadedPoints>>

(***************************************************************************)
(* POST /api/bots/verify/:botId (per-user server only)                     *)
(***************************************************************************)
\* from the handler's entry to the call of saveBots() or to the 404
VerifyBot(p, botId) ==
    /\ variant = "perUser"
    /\ Listening
    /\ Free(p)
    /\ LET k == FindBot(bots, botId)
       IN /\ req' = [req EXCEPT ![p] = [NoRequest EXCEPT !.kind = "verify",
                                                         !.seq = started + 1,
                                                         !.botId = botId]]
          /\ pre' = [pre EXCEPT ![p] = Snapshot]
          /\ started' = started + 1
          /\ IF k = 0
             THEN /\ resp' = [resp EXCEPT ![p] =
                                Respond(404, ErrNotFound, NoBot)]
                  /\ pc' = [pc EXCEPT ![p] = "done"]
                  /\ loc' = [loc EXCEPT ![p] = NoLocals]
                  /\ writes' = [writes EXCEPT ![p] = NoWrites]
                  /\ UNCHANGED bots
             ELSE /\ bots' = MarkVerified(bots, k)
                  \* the record is shared with the handler that pushed it
                  /\ loc' = [q \in Procs |->
                               IF q = p
                               THEN [NoLocals EXCEPT
                                       !.botsText =
                                          BotsDoc(MarkVerified(bots, k))]
                               ELSE IF loc[q].idx = k
                                    THEN [loc[q] EXCEPT
                                            !.bot.status = VERIFIED]
                                    ELSE loc[q]]
                  /\ writes' = [writes EXCEPT ![p] = <<Issued("bots")>>]
                  /\ resp' = [resp EXCEPT ![p] = NoResponse]
                  /\ pc' = [pc EXCEPT ![p] = "awaitVerifySave"]
    /\ UNCHANGED <<variant, phase, botCount, userInfo, diskBots, diskUser,
                   now, created, loadedPoints>>

\* saveBots() settles: .then answers 200, .catch answers 500
VerifySaveDone(p, ok) ==
    /\ pc[p] = "awaitVerifySave"
    /\ IF ok
       THEN /\ diskBots' = loc[p].botsText
            /\ resp' = [resp EXCEPT ![p] = Respond(200, NoError, NoBot)]
       ELSE /\ UNCHANGED diskBots
            /\ resp' = [resp EXCEPT ![p] = Respond(500, ErrVerify, NoBot)]
    /\ pc' = [pc EXCEPT ![p] = "done"]
    /\ loc' = [loc EXCEPT ![p] = NoLocals]
    /\ writes' = [writes EXCEPT ![p] = Settled(@, ok)]
    /\ UNCHANGED <<variant, phase, bots, botCount, userInfo, diskUser, now,
                   req, pre, started, created, loadedPoints>>

(***************************************************************************)
(* GET /api/user and GET /api/bots                                         *)
(***************************************************************************)
\* a query handler runs to its end in one stretch; it answers 200 with the
\* container as it stands, and changes nothing
Query(p, kind) ==
    /\ Listening
    /\ Free(p)
    /\ req' = [req EXCEPT ![p] = [NoRequest EXCEPT !.kind = kind,
                                                   !.seq = started + 1]]
    /\ pre' = [pre EXCEPT ![p] = Snapshot]
    /\ started' = started + 1
    /\ resp' = [resp EXCEPT ![p] = Respond(200, NoError, NoBot)]
    /\ pc' = [pc EXCEPT ![p] = "done"]
    /\ loc' = [loc EXCEPT ![p] = NoLocals]
    /\ writes' = [writes EXCEPT ![p] = NoWrites]
    /\ UNCHANGED <<variant, phase, bots, botCount, userInfo, diskBots,
                   diskUser, now, created, loadedPoints>>

\* res.json(userInfo): the body is userInfo, which pre[p].userInfo records
GetUser(p) == Query(p, "user")

\* res.json(bots): the body is bots, which pre[p].bots records
GetBots(p) == Query(p, "bots")

(***************************************************************************)
(* Specifications                                                          *)
(***************************************************************************)
\* ids a verify request may name: the oldest loaded record's, those the
\* clock can give, and one that no record has
BotIdValues == -1..(MaxClock + 1)

Startup ==
    \/ \E okB, okU \in BOOLEAN : InitializeDataFiles(okB, okU)
    \/ \E ok \in BOOLEAN : LoadBots(ok)
    \/ \E ok \in BOOLEAN : LoadUser(ok)

Settle(p) ==
    \/ \E ok \in BOOLEAN, t \in ClockValues : UserSaveDone(p, ok, t)
    \/ \E ok \in BOOLEAN : BotSaveDone(p, ok)
    \/ \E ok \in BOOLEAN, o \in RejectionOutcomes : CompSaveDone(p, ok, o)
    \/ \E ok \in BOOLEAN : VerifySaveDone(p, ok)

Arrive(p) ==
    \/ \E u \in UsernameValues, f \in IsPrivateValues, o \in UserIdValues :
          CreateBot(p, u, f, o)
    \/ \E id \in BotIdValues : VerifyBot(p, id)
    \/ GetUser(p)
    \/ GetBots(p)

\* Creation requests interleave at their awaits; the two documents are
\* present and well-formed when the service starts.
InitLoadable ==
    \E v \in {"perUser", "global"},
       botsDoc \in {d \in InitialBotsDocs : d.state = "ok"},
       userDoc \in {d \in InitialUserDocs : d.state = "ok"} :
        Constructed(v, botsDoc, userDoc)

Next ==
    \/ Startup
    \/ /\ started < MaxRequests
       /\ \E p \in Procs, u \in {"", "bot"}, f \in {NoValue, "true"},
             o \in {NoValue, "alice"} : CreateBot(p, u, f, o)
    \/ \E p \in Procs, ok \in BOOLEAN, t \in ClockValues : UserSaveDone(p, ok, t)
    \/ \E p \in Procs, ok \in BOOLEAN : BotSaveDone(p, ok)
    \/ \E p \in Procs, ok \in BOOLEAN, o \in RejectionOutcomes :
          CompSaveDone(p, ok, o)

Spec == InitLoadable /\ [][Next]_vars

\* one request at a time: each is answered before the next arrives
NextSerial ==
    \/ Startup
    \/ started < MaxSerialRequests /\ Arrive(1)
    \/ Settle(1)

SpecSerial == Init /\ [][NextSerial]_vars

\* The per-user server, started with an empty bot list and points for
\* MaxQuotaRequests bots, serving well-formed creation requests one at a time.
InitQuota ==
    Constructed("perUser", EmptyBotsDoc,
                UserDoc(MaxQuotaRequests * BotCost, NoValue))

NextQuota ==
    \/ Startup
    \/ /\ started < MaxQuotaRequests
       /\ \E o \in UserIdValues : CreateBot(1, "bot", "true", o)
    \/ \E ok \in BOOLEAN, t \in ClockValues : UserSaveDone(1, ok, t)
    \/ \E ok \in BOOLEAN : BotSaveDone(1, ok)
    \/ \E ok \in BOOLEAN, o \in RejectionOutcomes : CompSaveDone(1, ok, o)

SpecQuota == InitQuota /\ [][NextQuota]_vars

\* Creation requests in slot 1, with GET /api/user requests of slot 2 served
\* while a creation request is suspended at a file write.
NextObserve ==
    \/ Startup
    \/ /\ started < MaxObserveRequests
       /\ \E u \in {"", "bot"} : CreateBot(1, u, "true", NoValue)
    \/ started < MaxObserveRequests /\ GetUser(2)
    \/ \E ok \in BOOLEAN, t \in ClockValues : UserSaveDone(1, ok, t)
    \/ \E ok \in BOOLEAN : BotSaveDone(1, ok)
    \/ \E ok \in BOOLEAN, o \in RejectionOutcomes : CompSaveDone(1, ok, o)

SpecObserve == InitLoadable /\ [][NextObserve]_vars

\* the slot a request takes when it arrives: the lowest one that is free
Lowest(p) == Free(p) /\ \A q \in Procs : q < p => ~Free(q)

\* Well-formed creation requests that interleave at their awaits, on a
\* server that starts one record short of both limits with points for
\* MaxRaceRequests bots.  The records are built within one millisecond.
InitRace ==
    \E v \in {"perUser", "global"} :
        Constructed(v, BotsDoc(NearLimits),
                    UserDoc(MaxRaceRequests * BotCost, "alice"))

NextRace ==
    \/ Startup
    \/ /\ started < MaxRaceRequests
       /\ \E p \in Procs, o \in {NoValue, "alice"} :
             Lowest(p) /\ CreateBot(p, "bot", "true", o)
    \/ \E p \in Procs, ok \in BOOLEAN : UserSaveDone(p, ok, now)
    \/ \E p \in Procs, ok \in BOOLEAN : BotSaveDone(p, ok)
    \/ \E p \in Procs, ok \in BOOLEAN, o \in RejectionOutcomes :
          CompSaveDone(p, ok, o)

SpecRace == InitRace /\ [][NextRace]_vars

(***************************************************************************)
(* Properties                                                              *)
(***************************************************************************)
\* the handler of slot p has run to its end
Finished(p) == pc[p] \in {"done", "rejected"}
CreateFinished(p) == Finished(p) /\ req[p].kind = "create"
VerifyFinished(p) == Finished(p) /\ req[p].kind = "verify"

\* a step in which the handler of slot p runs to its end
Ends(p) == Finished(p)' /\ (~Finished(p) \/ req'[p].seq # req[p].seq)
CreateEnds(p) == Ends(p) /\ req'[p].kind = "create"

\* the i-th write of slot p's request was of doc and ended as result
Wrote(p, i, doc, result) ==
    /\ Len(writes[p]) >= i
    /\ writes[p][i] = [doc |-> doc, result |-> result]

MemoryAsBefore(p) ==
    /\ bots = pre[p].bots
    /\ botCount = pre[p].botCount
    /\ userInfo = pre[p].userInfo

DiskAsBefore(p) ==
    /\ diskBots = pre[p].diskBots
    /\ diskUser = pre[p].diskUser

\* validation k rejects request r in state s
Fails(k, r, s) ==
    CASE k = 1 -> ~Truthy(r.isPrivate)
      [] k = 2 -> ~Truthy(r.username)
      [] k = 3 -> s.botCount >= maxBots
      [] k = 4 -> PrivateBotCount(s.bots, r.userId) >= maxPrivateBots
      [] k = 5 -> s.userInfo.points < BotCost

ErrorOf(k) ==
    CASE k = 1 -> ErrPrivate
      [] k = 2 -> ErrUsername
      [] k = 3 -> ErrMaxBots
      [] k = 4 -> ErrPrivateLimit
      [] k = 5 -> ErrPoints

\* the bot-list write of slot p's creation request failed after its
\* user-info write succeeded
BotSaveFailed(p) ==
    /\ CreateFinished(p)
    /\ Wrote(p, 1, "user", "ok")
    /\ Wrote(p, 2, "bots", "failed")

C2_PointsSaveFailure ==
    [][\A p \in Procs :
        (CreateEnds(p) /\ Wrote(p, 1, "user", "failed")') =>
            /\ MemoryAsBefore(p)'
            /\ Len(writes'[p]) = 1
            /\ DiskAsBefore(p)'
            /\ resp'[p] = Respond(500, ErrSavePoints, NoBot)]_vars

C2_Witness ==
    \E p \in Procs :
        /\ CreateFinished(p)
        /\ Wrote(p, 1, "user", "failed")
        /\ pre[p].bots # <<>>
        /\ userInfo.points = pre[p].userInfo.points

\* C3: a creation request that any of the five validations rejects is
\* answered 400 and leaves memory and both documents as they were, without
\* issuing a write; and a 400 is sent to no other creation request.
C3_ValidationFrame ==
    [][\A p \in Procs :
        CreateEnds(p) =>
            /\ (\E k \in 1..5 : Fails(k, req'[p], pre'[p]))
                  <=> resp'[p].status = 400
            /\ resp'[p].status = 400 =>
                  /\ MemoryAsBefore(p)'
                  /\ DiskAsBefore(p)'
                  /\ writes'[p] = <<>>]_vars

C3_Witness ==
    \E p \in Procs :
        /\ CreateFinished(p)
        /\ resp[p] = Respond(400, ErrPrivateLimit, NoBot)
        /\ pre[p].userInfo.points >= BotCost
        /\ MemoryAsBefore(p)

\* C4: a creation request whose two writes succeed takes exactly 250 points,
\* appends exactly one record (status Waiting for Verification, private) at
\* the end of the list, leaves the earlier records as they were, adds one to
\* the bot count and answers 200 with that record.
C4_Success ==
    [][\A p \in Procs :
        (/\ CreateEnds(p)
         /\ \/ resp'[p].status = 200
            \/ Wrote(p, 1, "user", "ok")' /\ Wrote(p, 2, "bots", "ok")') =>
            /\ resp'[p].status = 200
            /\ userInfo'.points = pre'[p].userInfo.points - 250
            /\ Len(bots') = Len(pre'[p].bots) + 1
            /\ SubSeq(bots', 1, Len(pre'[p].bots)) = pre'[p].bots
            /\ bots'[Len(bots')] = resp'[p].bot
            /\ resp'[p].bot.status = WAITING
            /\ resp'[p].bot.isPrivate = TRUE
            /\ resp'[p].bot.username = req'[p].username
            /\ botCount' = pre'[p].botCount + 1]_vars

C4_Witness ==
    \E p \in Procs :
        /\ CreateFinished(p)
        /\ resp[p].status = 200
        /\ pre[p].bots # <<>>
        /\ pre[p].userInfo.points = 300
        /\ userInfo.points = 50

\* C5: with requests served one at a time, the bot count never exceeds 20.
C5_BotLimit == botCount <= maxBots /\ Len(bots) <= maxBots

C5_Witness ==
    /\ botCount = maxBots
    /\ \E p \in Procs :
          /\ CreateFinished(p)
          /\ resp[p] = Respond(400, ErrMaxBots, NoBot)

\* the private records that carry owner u
PrivateOf(u) == {i \in DOMAIN bots : bots[i].isPrivate /\ bots[i].userId = u}

\* C6 as claimed: in the per-user server, started with an empty list and
\* serving one request at a time, no owner (guest included) ever has more
\* than 5 private records.
C6_Original ==
    \A u \in {"guest", "alice"} : Cardinality(PrivateOf(u)) <= maxPrivateBots

\* C7: the error of a 400 response is that of the first validation, in the
\* order 1..5, that rejects the request; nothing is changed or written
\* before all five have passed.
C7_ValidationOrder ==
    [][\A p \in Procs :
        CreateEnds(p) =>
            \A k \in 1..5 :
                (/\ Fails(k, req'[p], pre'[p])
                 /\ \A j \in 1..(k - 1) : ~Fails(j, req'[p], pre'[p])) =>
                    /\ resp'[p] = Respond(400, ErrorOf(k), NoBot)
                    /\ MemoryAsBefore(p)'
                    /\ writes'[p] = <<>>]_vars

C7_Witness ==
    \E p \in Procs :
        /\ CreateFinished(p)
        /\ Fails(3, req[p], pre[p])
        /\ Fails(4, req[p], pre[p])
        /\ Fails(5, req[p], pre[p])
        /\ resp[p].error = ErrMaxBots

\* C8 as claimed: every finished request has been answered 200, 400, 404 or
\* 500, and a creation request whose compensating user-info write failed has
\* been answered 500 "Error saving bot".
C8_Original ==
    \A p \in Procs :
        Finished(p) =>
            /\ resp[p].status \in {200, 400, 404, 500}
            /\ Wrote(p, 3, "user", "failed") =>
                  resp[p] = Respond(500, ErrSaveBot, NoBot)

\* C9 as claimed: when a request ends with a 500 response, memory is as it
\* was before the request.
C9_Original ==
    [][\A p \in Procs :
        (Ends(p) /\ resp'[p].status = 500) => MemoryAsBefore(p)']_vars

\* the list bts with the first record of id botId marked Verified
WithVerified(bts, botId) ==
    [i \in DOMAIN bts |->
        IF /\ bts[i].id = botId
           /\ \A j \in 1..(i - 1) : bts[j].id # botId
        THEN [bts[i] EXCEPT !.status = VERIFIED]
        ELSE bts[i]]

\* C9 (amended): when a creation request ends with a 500 response, memory is
\* as it was before the request; when a verify request ends with a 500
\* response, the record it named is Verified in memory (no rollback) and
\* nothing else differs.
C9_RollbackOn500 ==
    [][\A p \in Procs :
        (Ends(p) /\ resp'[p].status = 500) =>
            IF req'[p].kind = "create"
            THEN MemoryAsBefore(p)'
            ELSE /\ bots' = WithVerified(pre'[p].bots, req'[p].botId)
                 /\ botCount' = pre'[p].botCount
                 /\ userInfo' = pre'[p].userInfo]_vars

C9_Witness ==
    \E p \in Procs :
        /\ VerifyFinished(p)
        /\ resp[p].status = 500
        /\ bots # pre[p].bots
        /\ bots = WithVerified(pre[p].bots, req[p].botId)

\* no handler is suspended at a file write
Quiescent == \A p \in Procs : Free(p)

\* C10 as claimed: once all requests have finished, the points are the
\* loaded points less 250 for each creation request answered 200.
C10_Original ==
    (phase = "serving" /\ Quiescent) =>
        userInfo.points = loadedPoints - BotCost * created

\* the creation request of slot p deducted 250 points and the deduction was
\* rolled back: one of its writes failed
RolledBack(p) ==
    /\ CreateFinished(p)
    /\ \/ Wrote(p, 1, "user", "failed")
       \/ Wrote(p, 2, "bots", "failed")

\* C11 as claimed: when a creation request ends whose deduction was rolled
\* back, every GET /api/user served while it was suspended at a file write
\* returned the points as they were before that request, not the points
\* less the 250 that were later given back.
C11_Original ==
    [][\A p, q \in Procs :
        (/\ Ends(p) /\ RolledBack(p)'
         /\ q # p
         /\ req'[q].kind = "user"
         /\ req'[q].seq > req'[p].seq) =>
            pre'[q].userInfo.points = pre'[p].userInfo.points]_vars

\* a step in which the creation request of slot p appends its record
Appends(p) == pc[p] = "awaitUserSave" /\ pc'[p] = "awaitBotSave"

\* C12: with creation requests interleaved at the file writes the limits can
\* be exceeded, by as much as the requests that passed the checks together:
\* with two requests in flight, an append leaves a bot count of at most 21
\* and, of the private records validation 4 counted for the request, at most
\* 6; both excesses are reached (C12_Witness).
C12_LimitRace ==
    [][\A p \in Procs :
        Appends(p) =>
            /\ botCount' = Len(bots')
            /\ botCount' <= maxBots + Cardinality(Procs) - 1
            /\ PrivateBotCount(bots', req'[p].userId)
                  <= maxPrivateBots + Cardinality(Procs) - 1]_vars

C12_Witness ==
    /\ botCount = maxBots + 1
    /\ PrivateBotCount(bots, "alice") = maxPrivateBots + 1
    /\ \A p \in Procs :
          /\ pc[p] = "awaitBotSave"
          /\ pre[p].botCount = maxBots - 1
          /\ PrivateBotCount(pre[p].bots, req[p].userId) = maxPrivateBots - 1

\* a step in which loadData leaves its first, or its second, try block
LoadsBots == phase = "loadBots" /\ phase' # "loadBots"
LoadsUser == phase = "loadUser" /\ phase' # "loadUser"

\* C13 as claimed: when bot_data.json cannot be read or parsed, loadData
\* goes on with an empty bot list, count 0 and bot_data.json overwritten
\* with [], and user info untouched; it then loads from a valid
\* user_data.json the document's points, coerced to a number, leaving the
\* bot list alone; and when user_data.json cannot be read or parsed, it
\* resets user info, in memory and on disk, to its default and leaves the
\* bot list and bot_data.json alone.
C13_Original ==
    [][/\ (LoadsBots /\ diskBots.state # "ok") =>
             /\ phase' = "loadUser"
             /\ bots' = <<>> /\ botCount' = 0
             /\ diskBots' = EmptyBotsDoc
             /\ UNCHANGED <<userInfo, diskUser>>
       /\ (LoadsUser /\ diskUser.state = "ok") =>
             /\ phase' = "serving"
             /\ userInfo'.points = CoercePoints(diskUser)
             /\ UNCHANGED <<bots, botCount, diskBots, diskUser>>
       /\ (LoadsUser /\ diskUser.state # "ok") =>
             /\ phase' = "serving"
             /\ userInfo' = DefaultUserInfo
             /\ diskUser' = DefaultUserDoc
             /\ UNCHANGED <<bots, botCount, diskBots>>]_vars

\* C14 as claimed: a request is taken up only once loadData has completed,
\* and never once the process has exited.
C14_Original == [][started' # started => phase = "serving"]_vars

\* a step in which the verify request of slot p runs to its end
VerifyEnds(p) == Ends(p) /\ req'[p].kind = "verify"

\* no record of the list bts has the id botId
Unknown(bts, botId) == \A i \in DOMAIN bts : bts[i].id # botId

\* C15: a verify request whose id no record of the bot list has is answered
\* 404 "Bot not found.", issues no write and leaves the bot list, the bot
\* count, the user info and both documents as they were.
C15_VerifyUnknown ==
    [][\A p \in Procs :
        (VerifyEnds(p) /\ Unknown(pre'[p].bots, req'[p].botId)) =>
            /\ resp'[p] = Respond(404, ErrNotFound, NoBot)
            /\ writes'[p] = <<>>
            /\ MemoryAsBefore(p)'
            /\ DiskAsBefore(p)']_vars

C15_Witness ==
    \E p \in Procs :
        /\ VerifyFinished(p)
        /\ pre[p].bots # <<>>
        /\ Unknown(pre[p].bots, req[p].botId)
        /\ resp[p].status = 404
        /\ bots = pre[p].bots

\* the first record of the list bts with the id botId is Verified
VerifiedIn(bts, botId) ==
    \E i \in DOMAIN bts :
        /\ bts[i].id = botId
        /\ \A j \in 1..(i - 1) : bts[j].id # botId
        /\ bts[i].status = VERIFIED

\* C16: a verify request for an id that is in the list leaves the first
\* record of that id Verified and the rest of the list as it was; when its
\* write succeeds it answers 200 and bot_data.json holds the list.  A repeat
\* (the record was Verified already) leaves the list as it found it, and
\* bot_data.json too if it held that list, as it does after a first verify
\* whose write succeeded; it answers 200 when its own write succeeds.
C16_VerifyIdempotent ==
    [][\A p \in Procs :
        (VerifyEnds(p) /\ ~Unknown(pre'[p].bots, req'[p].botId)) =>
            /\ bots' = WithVerified(pre'[p].bots, req'[p].botId)
            /\ VerifiedIn(bots', req'[p].botId)
            /\ Wrote(p, 1, "bots", "ok")' <=> resp'[p].status = 200
            /\ Wrote(p, 1, "bots", "ok")' => diskBots' = BotsDoc(bots')
            /\ VerifiedIn(pre'[p].bots, req'[p].botId) =>
                  /\ bots' = pre'[p].bots
                  /\ pre'[p].diskBots = BotsDoc(pre'[p].bots) =>
                        diskBots' = pre'[p].diskBots]_vars

C16_Witness ==
    \E p \in Procs :
        /\ VerifyFinished(p)
        /\ resp[p].status = 200
        /\ VerifiedIn(pre[p].bots, req[p].botId)
        /\ pre[p].diskBots = BotsDoc(pre[p].bots)
        /\ bots = pre[p].bots
        /\ diskBots = pre[p].diskBots

\* record b is record a with, at most, its status moved on to Verified
SameRecord(a, b) ==
    /\ b.id = a.id
    /\ b.username = a.username
    /\ b.createdAt = a.createdAt
    /\ b.isPrivate = a.isPrivate
    /\ b.userId = a.userId
    /\ \/ b.status = a.status
       \/ a.status = WAITING /\ b.status = VERIFIED

\* C17: in every step of a createBot, verifyBot or query request, a record
\* that stays in the bot list keeps its id, username, createdAt, isPrivate
\* and userId, and its status stays as it is or moves from Waiting for
\* Verification to Verified.  (The step of loadData that reads the list
\* replaces the array, and with it every record.)
C17_RecordsImmutable ==
    [][~LoadsBots =>
          \A i \in DOMAIN bots \cap DOMAIN bots' :
              SameRecord(bots[i], bots'[i])]_vars

C17_Witness ==
    \E p \in Procs, i \in DOMAIN bots :
        /\ VerifyFinished(p)
        /\ req[p].botId = bots[i].id
        /\ bots[i].username = "bot"
        /\ bots[i].status = VERIFIED
        /\ pre[p].bots[i].status = WAITING

\* C18 as claimed: starting from an empty list, no two records of the bot
\* list ever have the same id.
C18_Original ==
    \A i, j \in DOMAIN bots : i # j => bots[i].id # bots[j].id

\* C19 as claimed: once all requests have finished, the record of every
\* creation request that was answered 200 is in the bot list (a request whose
\* bot-list write failed took out its own record and no other).
C19_Original ==
    Quiescent =>
        \A p \in Procs :
            (CreateFinished(p) /\ resp[p].status = 200) =>
                \E i \in DOMAIN bots : bots[i] = resp[p].bot

\* C20: the points loaded are not negative, and under every interleaving of
\* creation requests and every pattern of write failures the in-memory
\* points are never negative.
C20_PointsNonNegative == loadedPoints >= 0 /\ userInfo.points >= 0

C20_Witness ==
    \E p, q \in Procs :
        /\ pc[p] = "awaitUserSave"
        /\ CreateFinished(q)
        /\ resp[q] = Respond(400, ErrPoints, NoBot)
        /\ pre[q].userInfo.points = userInfo.points
        /\ userInfo.points < BotCost
        /\ loadedPoints >= BotCost

====
